---- MODULE Spec2Model ----
(***************************************************************************)
(* HumanSimulator (src/src/modules/human_simulator.py): the orchestrator   *)
(* that turns move / click / type / scroll / drag / key operations into    *)
(* primitive pyautogui calls and timed sleeps, and keeps the bounded mouse *)
(* history.                                                                *)
(*                                                                         *)
(* An operation in flight is the list `pending` of the steps its code has  *)
(* still to run; one step is one pyautogui call, one time.sleep, one       *)
(* history append or the entry of a nested move_mouse_human.  Every        *)
(* pyautogui call may raise: the simulator has no try/except, so the       *)
(* exception unwinds the whole operation.  Times are milliseconds.         *)
(***************************************************************************)
EXTENDS Integers, Sequences, FiniteSets, TLC

VARIABLES
    pos,               \* pyautogui.position(): the pointer, <<x, y>>
    held,              \* keys and buttons the executor currently holds down
    mouse_history,     \* self.mouse_history: sequence of <<x, y, t>>
    action_counter,    \* self.action_counter
    last_action_time,  \* self.last_action_time
    mouse_config,      \* self.mouse_config (MouseMoveConfig), immutable
    human_delay,       \* self.human_delay (HumanDelayConfig), immutable
    last_path,         \* use_curve and path of the last move_mouse_human not skipped
    now,               \* time.time()
    pending,           \* steps the operation in flight has still to run
    trace,             \* pyautogui calls and sleeps of the current operation
    result,            \* "none" | "running" | "ok" | "error" of that operation
    op,                \* the operation in flight or last run, with its arguments
    nops,              \* operations started so far
    cancel_requested,  \* the caller has asked the operation in flight to stop
    pattern            \* what get_behavior_pattern() last returned

vars == <<pos, held, mouse_history, action_counter, last_action_time,
          mouse_config, human_delay, last_path, now, pending, trace, result, op, nops,
          cancel_requested, pattern>>

\* ------------------------------------------------------------------ bounds

\* Operations one run of the general specification starts.
MaxOps == 1
\* Operations one run of the moves specification starts.
MaxMoveOps == 3
\* Operations one run of the history specification starts (more than the
\* history capacity, so that eviction happens).
MaxHistoryOps == 103
\* Resolution of the fixed-point model of Python floats (units per pixel).
FixScale == 1000

\* random.randint(-50, 50) of _generate_bezier_curve.
MaxCtrlOffset == 50

\* Screen points the caller aims at.
Targets == {<<10, 20>>, <<130, 70>>}
\* Where the pointer is when the simulator is built: on a target, one pixel
\* off the first target in both axes, and four pixels off it in both axes
\* (one pixel off the first target displaced by a click offset of (3, -3)).
StartPoints == Targets \cup {<<11, 19>>, <<14, 16>>}
\* random.randint(-50, 50) per control point and axis: the draws tried, as
\* one offset pair per control point (the first k are used).
CtrlOffsetDraws ==
    { << <<-MaxCtrlOffset, MaxCtrlOffset>>, <<MaxCtrlOffset, -MaxCtrlOffset>>, <<0, 0>>,
         <<MaxCtrlOffset, MaxCtrlOffset>> >>,
      << <<MaxCtrlOffset, MaxCtrlOffset>>, <<-MaxCtrlOffset, -MaxCtrlOffset>>,
         <<-MaxCtrlOffset, MaxCtrlOffset>>, <<0, -MaxCtrlOffset>> >> }
\* random.randint(-j, j) per path point and axis, in units of j: the jitter
\* of point i is the draw's entry (i mod 3) + 1.
JitterDraws == { << <<0, 0>>, <<0, 0>>, <<0, 0>> >>,
                 << <<1, -1>>, <<-1, 0>>, <<1, 1>> >> }

\* MouseMoveConfig objects the simulator is built with: the default (whose
\* jitter, int(0.05 * 10), is 0) and one with a jitter of 3 pixels.
MouseConfigs ==
    { [speed_min |-> 300, speed_max |-> 800, curve_factor |-> 30, jitter_factor |-> 5],
      [speed_min |-> 300, speed_max |-> 800, curve_factor |-> 30, jitter_factor |-> 30] }

\* HumanDelayConfig objects the simulator is built with: the default, and
\* one with a wide and a narrow window.
HumanDelays ==
    { [min_delay |-> 100, max_delay |-> 500, think_time_min |-> 200,
       think_time_max |-> 1000, reaction_time_min |-> 100, reaction_time_max |-> 300],
      [min_delay |-> 1, max_delay |-> 2, think_time_min |-> 10,
       think_time_max |-> 5000, reaction_time_min |-> 1, reaction_time_max |-> 2] }

\* Delay and mouse configurations a configuration file may ask for: the
\* defaults, a reversed window, an empty window (min = max) and a zero.
DelayCandidates ==
    { [min_delay |-> 100, max_delay |-> 500, think_time_min |-> 200,
       think_time_max |-> 1000, reaction_time_min |-> 100, reaction_time_max |-> 300],
      [min_delay |-> 500, max_delay |-> 100, think_time_min |-> 200,
       think_time_max |-> 1000, reaction_time_min |-> 100, reaction_time_max |-> 300],
      [min_delay |-> 100, max_delay |-> 100, think_time_min |-> 200,
       think_time_max |-> 200, reaction_time_min |-> 100, reaction_time_max |-> 300],
      [min_delay |-> 0, max_delay |-> 500, think_time_min |-> 200,
       think_time_max |-> 1000, reaction_time_min |-> 100, reaction_time_max |-> 300] }
MouseCandidates ==
    { [speed_min |-> 300, speed_max |-> 800, curve_factor |-> 30, jitter_factor |-> 5],
      [speed_min |-> 800, speed_max |-> 300, curve_factor |-> 30, jitter_factor |-> 5],
      [speed_min |-> 300, speed_max |-> 300, curve_factor |-> 30, jitter_factor |-> 5] }

\* scroll_human(clicks = 0..MaxScrollClicks), press_key_human(presses =
\* 0..MaxPresses).
MaxScrollClicks == 2
MaxPresses == 2
\* Offsets the caller of click_human gives ((0, 0) is the default: none).
ClickOffsets == {<<0, 0>>, <<2, -1>>}
\* random.randint(-3, 3) twice: the offsets tried.
ClickOffsetDraws == {<<-3, 3>>, <<0, 0>>, <<3, -3>>}
\* Texts the caller types: letters in the middle and at the end of a row,
\* an upper-case letter, characters in no row.  Probabilities in hundredths.
Texts == { << >>, << "d" >>, << "q", " " >>, << "H", "/", "s" >> }
ShortTexts == { << "q" >> }
Probabilities == {0, 50, 100}
\* random.random(), in hundredths: the values tried.
RandomDraws == {0, 50, 99}
\* pyautogui.size(), and the points _look_around draws in
\* [100, width - 100] x [100, height - 100].
ScreenWidth == 400
ScreenHeight == 300
LookDraws == {<<100, 100>>, <<ScreenWidth - 100, ScreenHeight - 100>>}
\* random.randint(-20, 20) twice in _micro_mouse_movement: the offsets tried.
MicroOffsetDraws == {<<-20, 20>>, <<0, 0>>, <<20, -20>>}
\* idle_behavior(min_duration, max_duration) as called, in ms.
IdleDurations == {<<0, 0>>, <<1000, 1000>>, <<500, 1000>>, <<2000, 2000>>}
ShortIdleDurations == {<<1000, 1000>>, <<500, 1000>>}
\* Keys and key sequences the caller presses.
PressKeys == {"enter"}
HotkeySeqs == {<<"ctrl", "l">>, <<"ctrl", "shift", "t">>, <<"f5">>}

\* ------------------------------------------------------- program constants

MouseButton == {"left", "right", "middle"}
ScrollDirection == {"up", "down"}

HistoryCapacity == 100     \* len(self.mouse_history) > 100
NumCurvePoints == 50       \* num_points = 50
SkipTolerance == 2         \* abs(current - target) < 2
MinLinearPoints == 5       \* max(5, int(distance / 10))
PixelsPerLinearPoint == 10

\* MouseMoveConfig(): times in ms, factors in hundredths.
DefaultMouseConfig ==
    [speed_min |-> 300, speed_max |-> 800, curve_factor |-> 30, jitter_factor |-> 5]
\* HumanDelayConfig(): times in ms.
DefaultHumanDelay ==
    [min_delay |-> 100, max_delay |-> 500, think_time_min |-> 200,
     think_time_max |-> 1000, reaction_time_min |-> 100, reaction_time_max |-> 300]

\* ----------------------------------------------------------------- helpers

Abs(n) == IF n < 0 THEN -n ELSE n
Max2(a, b) == IF a >= b THEN a ELSE b
Min2(a, b) == IF a <= b THEN a ELSE b

Range(seq) == {seq[i] : i \in 1..Len(seq)}
Last(seq) == seq[Len(seq)]
Front(seq) == SubSeq(seq, 1, Len(seq) - 1)

\* The sequence seq with its elements computed once (TLC otherwise computes
\* an element of [i \in 1..n |-> e] anew on every use).
Seq1(seq) == seq \o << >>

RECURSIVE Flatten(_)
Flatten(seqs) == IF seqs = << >> THEN << >> ELSE Head(seqs) \o Flatten(Tail(seqs))

\* Python int(n / d) for d > 0: truncation toward zero.
TruncDiv(n, d) == IF n >= 0 THEN n \div d ELSE -((-n) \div d)

\* int(math.sqrt(v)) for v >= 0.
ISqrt(v) == CHOOSE r \in 0..(v + 1) : r * r <= v /\ (r + 1) * (r + 1) > v

\* A pyautogui call or a sleep, as the trace records it.
\*   kind: moveTo mouseDown mouseUp click scroll press keyDown keyUp sleep
\*   x, y: the point of a moveTo;  key: the key or button;  n: the scroll
\*   amount or the slept time;  role: which line of the code issued it;
\*   idx: the index of the character a key belongs to;  ok: FALSE when the
\*   executor raised on this call.
Event(kind, x, y, key, n, role, idx) ==
    [kind |-> kind, x |-> x, y |-> y, key |-> key, n |-> n, role |-> role,
     idx |-> idx, ok |-> TRUE]

\* A step of the operation in flight.
\*   ins: prim (a pyautogui call, ev is the event), sleep (time.sleep of a
\*   time in lo..hi, mark = the caller then stores last_action_time),
\*   call_move (move_mouse_human(x, y)), record (history append).
Step(ins, ev, lo, hi, mark) ==
    [ins |-> ins, ev |-> ev, lo |-> lo, hi |-> hi, mark |-> mark]

NoEvent == Event("none", 0, 0, "", 0, "", 0)
Prim(ev) == Step("prim", ev, 0, 0, FALSE)
Sleep(lo, hi, role, mark) == Step("sleep", Event("sleep", 0, 0, "", 0, role, 0), lo, hi, mark)
CallMove(x, y) == Step("call_move", Event("none", x, y, "", 0, "", 0), 0, 0, FALSE)
Record(x, y) == Step("record", Event("none", x, y, "", 0, "", 0), 0, 0, FALSE)

MoveEvent(p, role) == Event("moveTo", p[1], p[2], "", 0, role, 0)

\* ------------------------------------------------------- path synthesis

\* _generate_bezier_curve, the control points: control point i of k lies at
\* t = i / (k + 1) on the line from start to end, plus its random offset.
ControlPoints(start, end, k, offs) ==
    Seq1([i \in 1..k |->
        << TruncDiv(start[1] * (k + 1) + (end[1] - start[1]) * i + offs[i][1] * (k + 1), k + 1),
           TruncDiv(start[2] * (k + 1) + (end[2] - start[2]) * i + offs[i][2] * (k + 1), k + 1) >>])

\* (1 - t) * a + t * b at t = i / (num_points - 1), on fixed-point values.
Lerp(a, b, i) ==
    ((NumCurvePoints - 1 - i) * a + i * b) \div (NumCurvePoints - 1)

\* The while loop of _generate_bezier_curve: repeated linear interpolation
\* until one point is left.
RECURSIVE DeCasteljau(_, _)
DeCasteljau(points, i) ==
    IF Len(points) <= 1 THEN points[1]
    ELSE DeCasteljau(Seq1([j \in 1..(Len(points) - 1) |->
                         << Lerp(points[j][1], points[j + 1][1], i),
                            Lerp(points[j][2], points[j + 1][2], i) >>]), i)

Scaled(points) ==
    Seq1([j \in 1..Len(points) |-> << points[j][1] * FixScale, points[j][2] * FixScale >>])

\* GenerateBezierCurve with range(num_points - 1) for range(num_points).
GenerateBezierCurveShort(start, end, k, offs) ==
    LET points == Scaled(<<start>> \o ControlPoints(start, end, k, offs) \o <<end>>)
    IN  Seq1([i \in 1..(NumCurvePoints - 1) |->
            LET p == DeCasteljau(points, i - 1)
            IN  << TruncDiv(p[1], FixScale), TruncDiv(p[2], FixScale) >>])

\* _generate_bezier_curve(start, end, control_points = k) under the offset
\* draws offs: num_points points, point i at t = (i - 1) / (num_points - 1).
GenerateBezierCurve(start, end, k, offs) ==
    LET points == Scaled(<<start>> \o ControlPoints(start, end, k, offs) \o <<end>>)
    IN  Seq1([i \in 1..NumCurvePoints |->
            LET p == DeCasteljau(points, i - 1)
            IN  << TruncDiv(p[1], FixScale), TruncDiv(p[2], FixScale) >>])

\* int(jitter_factor * 10), jitter_factor in hundredths.
JitterBound(jitter_factor) == (jitter_factor * 10) \div 100

\* AddJitterToPath with the jitter drawn from twice the range.
AddJitterToPathDouble(path, jitter_factor, jit) ==
    Seq1([i \in 1..Len(path) |->
        << path[i][1] + 2 * JitterBound(jitter_factor) * jit[((i - 1) % 3) + 1][1],
           path[i][2] + 2 * JitterBound(jitter_factor) * jit[((i - 1) % 3) + 1][2] >>])

\* _add_jitter_to_path under the jitter draws jit.
AddJitterToPath(path, jitter_factor, jit) ==
    Seq1([i \in 1..Len(path) |->
        << path[i][1] + JitterBound(jitter_factor) * jit[((i - 1) % 3) + 1][1],
           path[i][2] + JitterBound(jitter_factor) * jit[((i - 1) % 3) + 1][2] >>])

\* num_points = max(5, int(distance / 10)) of the straight path.
LinearNumPoints(start, end) ==
    LET d2 == (end[1] - start[1]) * (end[1] - start[1])
              + (end[2] - start[2]) * (end[2] - start[2])
    IN  Max2(MinLinearPoints,
             ISqrt(d2 \div (PixelsPerLinearPoint * PixelsPerLinearPoint)))

\* LinearPath over range(1, num_points + 1): the start is left out.
LinearPathSkipsStart(start, end) ==
    LET n == LinearNumPoints(start, end)
        pt(i) == << TruncDiv(start[1] * n * n * n + (end[1] - start[1]) * i * i * (3 * n - 2 * i), n * n * n),
                    TruncDiv(start[2] * n * n * n + (end[2] - start[2]) * i * i * (3 * n - 2 * i), n * n * n) >>
    IN  Seq1([i \in 1..n |-> pt(i)])

\* The straight path of move_mouse_human: for i in range(num_points + 1),
\* eased by t * t * (3 - 2 * t) with t = i / num_points.
LinearPath(start, end) ==
    LET n == LinearNumPoints(start, end)
        pt(i) == << TruncDiv(start[1] * n * n * n + (end[1] - start[1]) * i * i * (3 * n - 2 * i), n * n * n),
                    TruncDiv(start[2] * n * n * n + (end[2] - start[2]) * i * i * (3 * n - 2 * i), n * n * n) >>
    IN  Seq1([i \in 1..(n + 1) |-> pt(i - 1)])

\* The traversal loop of move_mouse_human: moveTo each point, and sleep
\* interval * uniform(0.8, 1.2) after every point but the last.
Traverse(path, speed) ==
    Flatten(Seq1([i \in 1..Len(path) |->
        << Prim(MoveEvent(path[i], "path")) >>
        \o (IF i < Len(path)
            THEN << Sleep((speed * 8) \div (10 * Len(path)),
                          (speed * 12) \div (10 * Len(path)), "pace", FALSE) >>
            ELSE << >>)]))

\* MoveSteps with the history append inside the traversal loop.
MoveStepsRecordEachPoint(target, path, speed) ==
    << Sleep(human_delay.reaction_time_min, human_delay.reaction_time_max,
             "reaction", TRUE) >>
    \o Flatten(Seq1([i \in 1..Len(path) |->
          << Prim(MoveEvent(path[i], "path")),
             Sleep((speed * 8) \div (10 * Len(path)),
                   (speed * 12) \div (10 * Len(path)), "pace", FALSE),
             Record(target[1], target[2]) >>]))

\* move_mouse_human past its skip test: the reaction delay, the traversal,
\* the history append.
MoveSteps(target, path, speed) ==
    << Sleep(human_delay.reaction_time_min, human_delay.reaction_time_max,
             "reaction", TRUE) >>
    \o Traverse(path, speed)
    \o << Record(target[1], target[2]) >>

\* NearTarget that skips the move only when the pointer is on the target.
NearTargetExact(current, target) == current = target

\* The skip test of move_mouse_human.
NearTarget(current, target) ==
    /\ Abs(current[1] - target[1]) < SkipTolerance
    /\ Abs(current[2] - target[2]) < SkipTolerance

\* ------------------------------------------------------------ random draws

\* random.uniform(lo, hi), by the values tried: its two ends ("ends"), or
\* the middle of the range only (the other modes).
Draw(mode, lo, hi) == IF mode = "ends" THEN {lo, hi} ELSE {(lo + hi) \div 2}

\* np.random.normal(mean, std) with mean = (min_val + max_val) / 2 and std =
\* (max_val - min_val) / 6, by the values tried: the mean, and ("tails") a
\* value nine deviations off on either side, outside [min_val, max_val].
NormalDraw(mode, min_val, max_val) ==
    LET mean == (min_val + max_val) \div 2
    IN  IF mode = "tails"
        THEN {min_val - (max_val - min_val), mean, max_val + (max_val - min_val)}
        ELSE {mean}

\* GetRandomDelay without the upper clamp.
GetRandomDelayNoUpperClamp(min_val, max_val, normal) == Max2(min_val, normal)

\* _get_random_delay(min_val, max_val) when np.random.normal gives normal:
\* max(min_val, min(max_val, delay)).
GetRandomDelay(min_val, max_val, normal) == Max2(min_val, Min2(max_val, normal))

\* The delays a sleep step can take: _human_delay (mark) sleeps what
\* _get_random_delay returns, the other sleeps a uniform draw.
SleepDraws(mode, lo, hi, mark) ==
    IF mark
    THEN { GetRandomDelay(lo, hi, normal) :
              normal \in NormalDraw(mode, lo, hi) }
    ELSE Draw(mode, lo, hi)

\* ------------------------------------------------------------------- state

\* No move has synthesized a path yet.
\* The dict {}.
EmptyPattern == [k \in {} |-> 0]

NoPath == [use_curve |-> FALSE, control_points |-> 0, start |-> << 0, 0 >>,
           end |-> << 0, 0 >>, points |-> << >>]

\* The state after HumanSimulator(...) with the pointer at one of points and
\* the configurations drawn from mouse_configs and delay_configs.
InitFrom(points, mouse_configs, delay_configs) ==
    /\ pos \in points
    /\ held = {}
    /\ mouse_history = << >>
    /\ action_counter = 0
    /\ last_action_time = 0
    /\ mouse_config \in mouse_configs
    /\ human_delay \in delay_configs
    /\ last_path = NoPath
    /\ now = 0
    /\ pending = << >>
    /\ trace = << >>
    /\ result = "none"
    /\ op = [name |-> "none", x |-> 0, y |-> 0, x2 |-> 0, y2 |-> 0, keys |-> << >>,
             flag |-> FALSE, n |-> 0, p |-> 0, q |-> 0,
             pos0 |-> pos, history0 |-> << >>, counter0 |-> 0, last0 |-> 0, now0 |-> 0]
    /\ nops = 0
    /\ cancel_requested = FALSE
    /\ pattern = EmptyPattern

\* HumanSimulator() with the default configurations, the pointer at a target.
Init == InitFrom(Targets, {DefaultMouseConfig}, {DefaultHumanDelay})

\* The same with the pointer also near a target, not on it.
InitPointer == InitFrom(StartPoints, {DefaultMouseConfig}, {DefaultHumanDelay})

\* HumanSimulator(human_delay = ...) with one of the delay configurations.
InitDelay == InitFrom(Targets, {DefaultMouseConfig}, HumanDelays)

\* HumanSimulator(mouse_config = ...) with one of the mouse configurations,
\* the pointer on a target or near one.
InitPaths == InitFrom(StartPoints, MouseConfigs, {DefaultHumanDelay})

\* ConfigValidator._validate_rules on the human_simulator keys: each value
\* within the minimum and maximum of its rule (ms for seconds).
ValidateRules(delay, mouse) ==
    /\ delay.min_delay >= 10 /\ delay.min_delay <= 5000
    /\ delay.max_delay >= 10 /\ delay.max_delay <= 5000
    /\ delay.think_time_min >= 10 /\ delay.think_time_min <= 10000
    /\ delay.think_time_max >= 10 /\ delay.think_time_max <= 10000
    /\ mouse.speed_min >= 100 /\ mouse.speed_min <= 5000
    /\ mouse.speed_max >= 100 /\ mouse.speed_max <= 5000

\* ConfigValidator._validate_logic: no error is appended, an error being
\* "min and max and min > max" for the delay, think-time and speed pairs.
ValidateLogic(delay, mouse) ==
    /\ ~(delay.min_delay # 0 /\ delay.max_delay # 0 /\ delay.min_delay > delay.max_delay)
    /\ ~(delay.think_time_min # 0 /\ delay.think_time_max # 0
         /\ delay.think_time_min > delay.think_time_max)
    /\ ~(mouse.speed_min # 0 /\ mouse.speed_max # 0 /\ mouse.speed_min > mouse.speed_max)

\* HumanSimulator(human_delay, mouse_config) built from values that
\* ConfigValidator.validate has accepted (the dataclasses and __init__
\* themselves check nothing).
InitValidated ==
    \E delay \in DelayCandidates, mouse \in MouseCandidates :
        /\ ValidateRules(delay, mouse)
        /\ ValidateLogic(delay, mouse)
        /\ InitFrom(Targets, {mouse}, {delay})

config == <<mouse_config, human_delay>>
simulator == <<mouse_history, action_counter, last_action_time>>
executor == <<pos, held>>

\* The operation goes on with the steps rest, or has returned.
Continue(rest) ==
    /\ pending' = rest
    /\ result' = IF rest = << >> THEN "ok" ELSE "running"

\* No operation is in flight, the executor has not failed, and the run may
\* start one more operation.
CanStart(limit) ==
    /\ pending = << >>
    /\ result # "error"
    /\ nops < limit

\* The caller starts an operation whose code is the steps body.
Start(descr, body) ==
    /\ op' = descr
    /\ nops' = nops + 1
    /\ trace' = << >>
    /\ Continue(body)
    /\ UNCHANGED <<config, pattern, cancel_requested, last_path, simulator, executor, now>>

\* The call, for the properties to read: the operation, its arguments (x, y
\* a point, x2, y2 a second point or an offset, keys the text or the keys,
\* flag and n and p, q as the operation uses them) and the state it was
\* called in.
OpDescr(name, x, y, x2, y2, keys, flag, n, p, q) ==
    [name |-> name, x |-> x, y |-> y, x2 |-> x2, y2 |-> y2, keys |-> keys,
     flag |-> flag, n |-> n, p |-> p, q |-> q,
     pos0 |-> pos, history0 |-> mouse_history, counter0 |-> action_counter,
     last0 |-> last_action_time, now0 |-> now]

\* ------------------------------------------------------ steps of the code

\* What a pyautogui call that returns does to the executor.
MovedTo(ev) == IF ev.kind = "moveTo" THEN << ev.x, ev.y >> ELSE pos
Holding(ev) ==
    CASE ev.kind \in {"keyDown", "mouseDown"} -> held \cup {ev.key}
      [] ev.kind \in {"keyUp", "mouseUp"} -> held \ {ev.key}
      [] OTHER -> held

\* A pyautogui call returns (the amount of a scroll is drawn on the way:
\* random.randint(lo, hi)).
ExecPrim ==
    /\ pending # << >>
    /\ Head(pending).ins = "prim"
    /\ pos' = MovedTo(Head(pending).ev)
    /\ held' = Holding(Head(pending).ev)
    /\ \E n \in Head(pending).lo..Head(pending).hi :
          trace' = Append(trace, [Head(pending).ev EXCEPT !.n = n])
    /\ Continue(Tail(pending))
    /\ UNCHANGED <<config, pattern, cancel_requested, last_path, simulator, now, op, nops>>

\* AfterRaise when the exception is caught and the operation goes on.
AfterRaiseSwallowed(rest) == rest

\* What is left of the operation once a pyautogui call has raised: nothing,
\* the exception unwinds every frame of the simulator.
AfterRaise(rest) == << >>

\* A pyautogui call raises.
ExecFail ==
    /\ pending # << >>
    /\ Head(pending).ins = "prim"
    /\ \E n \in Head(pending).lo..Head(pending).hi :
          trace' = Append(trace, [Head(pending).ev EXCEPT !.n = n, !.ok = FALSE])
    /\ pending' = AfterRaise(Tail(pending))
    /\ result' = "error"
    /\ UNCHANGED <<config, pattern, cancel_requested, last_path, simulator, executor, now, op, nops>>

\* time.sleep(d) with d drawn from the step's range; _human_delay then
\* stores the time in last_action_time.
ExecSleep(mode) ==
    /\ pending # << >>
    /\ Head(pending).ins = "sleep"
    /\ \E d \in SleepDraws(mode, Head(pending).lo, Head(pending).hi, Head(pending).mark) :
          /\ now' = now + d
          /\ trace' = Append(trace, [Head(pending).ev EXCEPT !.n = d])
          /\ last_action_time' = IF Head(pending).mark THEN now + d ELSE last_action_time
    /\ Continue(Tail(pending))
    /\ UNCHANGED <<config, pattern, cancel_requested, last_path, executor, mouse_history, action_counter, op, nops>>

\* HistoryAppend without the eviction.
HistoryAppendNoEvict(history, entry) == Append(history, entry)

\* self.mouse_history.append(...); if len > 100: pop(0)
HistoryAppend(history, entry) ==
    IF Len(history) + 1 > HistoryCapacity
    THEN Tail(Append(history, entry))
    ELSE Append(history, entry)

\* ExecRecord without the counter.
ExecRecordKeepsCounter ==
    /\ pending # << >>
    /\ Head(pending).ins = "record"
    /\ mouse_history' = HistoryAppend(mouse_history,
                                      << Head(pending).ev.x, Head(pending).ev.y, now >>)
    /\ action_counter' = action_counter
    /\ Continue(Tail(pending))
    /\ UNCHANGED <<config, pattern, cancel_requested, last_path, executor, last_action_time, now, trace, op, nops>>

\* The end of move_mouse_human: the history append and the counter.
ExecRecord ==
    /\ pending # << >>
    /\ Head(pending).ins = "record"
    /\ mouse_history' = HistoryAppend(mouse_history,
                                      << Head(pending).ev.x, Head(pending).ev.y, now >>)
    /\ action_counter' = action_counter + 1
    /\ Continue(Tail(pending))
    /\ UNCHANGED <<config, pattern, cancel_requested, last_path, executor, last_action_time, now, trace, op, nops>>

\* The paths move_mouse_human can draw from current to target: the curved
\* ones (use_curve: 2 to 4 control points, jittered) and the straight one.
DrawnPaths(current, target, Kinds) ==
    (IF TRUE \in Kinds
     THEN { [use_curve |-> TRUE, control_points |-> k, start |-> current, end |-> target,
             points |-> AddJitterToPath(GenerateBezierCurve(current, target, k, offs),
                                        mouse_config.jitter_factor, jit)] :
               k \in 2..4, offs \in CtrlOffsetDraws, jit \in JitterDraws }
     ELSE {})
    \cup (IF FALSE \in Kinds
          THEN { [use_curve |-> FALSE, control_points |-> 0, start |-> current,
                  end |-> target, points |-> LinearPath(current, target)] }
          ELSE {})

\* The entry of move_mouse_human(x, y): the position is read, and the move
\* is skipped or its path is drawn and queued.
ExecCallMove(mode, Kinds) ==
    /\ pending # << >>
    /\ Head(pending).ins = "call_move"
    /\ LET target == << Head(pending).ev.x, Head(pending).ev.y >>
       IN  IF NearTarget(pos, target)
           THEN Continue(Tail(pending)) /\ UNCHANGED last_path
           ELSE \E drawn \in DrawnPaths(pos, target, Kinds),
                   speed \in Draw(mode, mouse_config.speed_min, mouse_config.speed_max) :
                   /\ last_path' = drawn
                   /\ Continue(MoveSteps(target, drawn.points, speed) \o Tail(pending))
    /\ UNCHANGED <<config, pattern, cancel_requested, simulator, executor, now, trace, op, nops>>

\* --------------------------------------------------------------- operations

\* move_mouse_human(x, y)
MoveTo(limit) ==
    /\ CanStart(limit)
    /\ \E t \in Targets :
          Start(OpDescr("moveTo", t[1], t[2], 0, 0, << >>, FALSE, 0, 0, 0),
                << CallMove(t[1], t[2]) >>)

\* ClickSteps with the two clicks of a double click issued back to back.
ClickStepsNoGap(at, x, y, button, double_click, offset, rnd) ==
    (IF at
     THEN LET off == IF offset[1] = 0 /\ offset[2] = 0 THEN rnd ELSE offset
          IN  << CallMove(x + off[1], y + off[2]) >>
     ELSE << >>)
    \o << Sleep(50, 200, "reaction", TRUE) >>
    \o (IF double_click
        THEN << Prim(Event("click", 0, 0, button, 0, "click", 0)),
                Prim(Event("click", 0, 0, button, 0, "click", 0)) >>
        ELSE << Prim(Event("click", 0, 0, button, 0, "click", 0)) >>)
    \o << Sleep(100, 300, "thinking", TRUE) >>

\* click_human(x, y, button, double_click, offset); at: x and y are given;
\* rnd: the offset drawn when the offset is (0, 0).
ClickSteps(at, x, y, button, double_click, offset, rnd) ==
    (IF at
     THEN LET off == IF offset[1] = 0 /\ offset[2] = 0 THEN rnd ELSE offset
          IN  << CallMove(x + off[1], y + off[2]) >>
     ELSE << >>)
    \o << Sleep(50, 200, "reaction", TRUE) >>
    \o (IF double_click
        THEN << Prim(Event("click", 0, 0, button, 0, "click", 0)),
                Sleep(100, 300, "gap", FALSE),
                Prim(Event("click", 0, 0, button, 0, "click", 0)) >>
        ELSE << Prim(Event("click", 0, 0, button, 0, "click", 0)) >>)
    \o << Sleep(100, 300, "thinking", TRUE) >>

\* A call of click_human; given: the caller passes offset (otherwise the
\* parameter takes its default, (0, 0)).  The descriptor keeps at in p and
\* given in q.
Click(limit) ==
    /\ CanStart(limit)
    /\ \E at \in BOOLEAN, t \in Targets, button \in MouseButton, double_click \in BOOLEAN,
          given \in BOOLEAN, offset \in ClickOffsets, rnd \in ClickOffsetDraws :
          /\ given \/ offset = << 0, 0 >>
          /\ Start(OpDescr("click", t[1], t[2], offset[1], offset[2], << button >>,
                           double_click, 0, IF at THEN 1 ELSE 0, IF given THEN 1 ELSE 0),
                   ClickSteps(at, t[1], t[2], button, double_click, offset, rnd))

\* The loop of scroll_human: clicks scroll calls of a drawn amount, with a
\* sleep between two of them.
\* ScrollTicks with the amount drawn from 1..3 whatever the direction.
ScrollTicksAlwaysUp(direction, clicks) ==
    Flatten(Seq1([i \in 1..clicks |->
        << Step("prim", Event("scroll", 0, 0, direction, 0, "scroll", i), 1, 3, FALSE) >>
        \o (IF i < clicks THEN << Sleep(200, 800, "scroll_gap", FALSE) >> ELSE << >>)]))

\* scroll_human, the loop: clicks calls of pyautogui.scroll with an amount
\* drawn from -3..-1 (down) or 1..3 (up), a sleep between two of them.
ScrollTicks(direction, clicks) ==
    Flatten(Seq1([i \in 1..clicks |->
        << Step("prim", Event("scroll", 0, 0, direction, 0, "scroll", i),
                IF direction = "down" THEN -3 ELSE 1,
                IF direction = "down" THEN -1 ELSE 3, FALSE) >>
        \o (IF i < clicks THEN << Sleep(200, 800, "scroll_gap", FALSE) >> ELSE << >>)]))

\* scroll_human(direction, clicks, x, y); at: x and y are given.
ScrollSteps(at, x, y, direction, clicks) ==
    (IF at THEN << CallMove(x, y) >> ELSE << >>) \o ScrollTicks(direction, clicks)

Scroll(limit) ==
    /\ CanStart(limit)
    /\ \E at \in BOOLEAN, t \in Targets, direction \in ScrollDirection,
          clicks \in 0..MaxScrollClicks :
          Start(OpDescr("scroll", t[1], t[2], 0, 0, << direction >>, FALSE, clicks,
                        IF at THEN 1 ELSE 0, 0),
                ScrollSteps(at, t[1], t[2], direction, clicks))

\* The drag loop: every point of the path is moved to and slept after.
DragTraverse(path, duration) ==
    Flatten(Seq1([i \in 1..Len(path) |->
        << Prim(MoveEvent(path[i], "drag")),
           Sleep((duration * 8) \div (10 * Len(path)),
                 (duration * 12) \div (10 * Len(path)), "pace", FALSE) >>]))

\* DragSteps with the button pressed only after the path.
DragStepsDownLate(start, end, duration, offs) ==
    << CallMove(start[1], start[2]),
       Sleep(100, 300, "pre_down", FALSE) >>
    \o DragTraverse(GenerateBezierCurve(start, end, 3, offs), duration)
    \o << Prim(Event("mouseDown", 0, 0, "primary", 0, "drag", 0)),
          Sleep(100, 300, "pre_up", FALSE),
          Prim(Event("mouseUp", 0, 0, "primary", 0, "drag", 0)) >>

\* drag_human(start_x, start_y, end_x, end_y, duration)
DragSteps(start, end, duration, offs) ==
    << CallMove(start[1], start[2]),
       Sleep(100, 300, "pre_down", FALSE),
       Prim(Event("mouseDown", 0, 0, "primary", 0, "drag", 0)) >>
    \o DragTraverse(GenerateBezierCurve(start, end, 3, offs), duration)
    \o << Sleep(100, 300, "pre_up", FALSE),
          Prim(Event("mouseUp", 0, 0, "primary", 0, "drag", 0)) >>

Drag(limit, mode) ==
    /\ CanStart(limit)
    /\ \E start \in Targets, end \in Targets, offs \in CtrlOffsetDraws,
          duration \in Draw(mode, 500, 1500) :
          Start(OpDescr("drag", start[1], start[2], end[1], end[2], << >>, FALSE, 0, 0, 0),
                DragSteps(start, end, duration, offs))

\* press_key_human(key, presses, interval), the interval drawn once when
\* the caller gives none.
PressKeySteps(key, presses, interval) ==
    Flatten(Seq1([i \in 1..presses |->
        << Prim(Event("press", 0, 0, key, 0, "key", i)) >>
        \o (IF i < presses THEN << Sleep(interval, interval, "key_gap", FALSE) >> ELSE << >>)]))

PressKey(limit, mode) ==
    /\ CanStart(limit)
    /\ \E key \in PressKeys, presses \in 0..MaxPresses, interval \in Draw(mode, 100, 500) :
          Start(OpDescr("pressKey", 0, 0, 0, 0, << key >>, FALSE, presses, 0, 0),
                PressKeySteps(key, presses, interval))

\* HotkeySteps with the modifiers released in the order they were pressed.
HotkeyStepsSameOrder(keys) ==
    LET n == Len(keys)
    IN  Flatten(Seq1([i \in 1..(n - 1) |->
            << Prim(Event("keyDown", 0, 0, keys[i], 0, "modifier", i)),
               Sleep(50, 150, "key_gap", FALSE) >>]))
        \o << Prim(Event("press", 0, 0, keys[n], 0, "final", n)),
              Sleep(50, 150, "key_gap", FALSE) >>
        \o Flatten(Seq1([i \in 1..(n - 1) |->
            << Prim(Event("keyUp", 0, 0, keys[i], 0, "modifier", i)),
               Sleep(50, 150, "key_gap", FALSE) >>]))

\* hotkey_human(*keys): keys[:-1] down in order, keys[-1] pressed,
\* reversed(keys[:-1]) up, a sleep after each.
HotkeySteps(keys) ==
    LET n == Len(keys)
    IN  Flatten(Seq1([i \in 1..(n - 1) |->
            << Prim(Event("keyDown", 0, 0, keys[i], 0, "modifier", i)),
               Sleep(50, 150, "key_gap", FALSE) >>]))
        \o << Prim(Event("press", 0, 0, keys[n], 0, "final", n)),
              Sleep(50, 150, "key_gap", FALSE) >>
        \o Flatten(Seq1([i \in 1..(n - 1) |->
            << Prim(Event("keyUp", 0, 0, keys[n - i], 0, "modifier", n - i)),
               Sleep(50, 150, "key_gap", FALSE) >>]))

Hotkey(limit) ==
    /\ CanStart(limit)
    /\ \E keys \in HotkeySeqs :
          Start(OpDescr("hotkey", 0, 0, 0, 0, keys, FALSE, 0, 0, 0), HotkeySteps(keys))

\* --------------------------------------------------------------- typing

\* keyboard_layout of _get_adjacent_key: row1 .. row4.
\* ("grave" is the grave accent key, which a string here cannot hold.)
KeyboardLayout ==
    << << "grave", "1", "2", "3", "4", "5", "6", "7", "8", "9", "0", "-", "=" >>,
       << "q", "w", "e", "r", "t", "y", "u", "i", "o", "p", "[", "]", "\\" >>,
       << "a", "s", "d", "f", "g", "h", "j", "k", "l", ";", "'" >>,
       << "z", "x", "c", "v", "b", "n", "m", ",", ".", "/" >> >>

\* char.lower(), on the characters the texts use.
Lower(char) ==
    CASE char = "A" -> "a" [] char = "H" -> "h" [] char = "Q" -> "q"
      [] char = "W" -> "w" [] char = "Z" -> "z" [] OTHER -> char

IndexOf(seq, e) == CHOOSE i \in 1..Len(seq) : seq[i] = e

\* GetAdjacentKey that steps two keys along the row.
GetAdjacentKeyTwoAway(char, offset) ==
    LET rows == {r \in 1..Len(KeyboardLayout) : Lower(char) \in Range(KeyboardLayout[r])}
    IN  IF rows = {} THEN ""
        ELSE LET keys == KeyboardLayout[CHOOSE r \in rows : TRUE]
                 new_idx == IndexOf(keys, Lower(char)) + 2 * offset
             IN  IF 1 <= new_idx /\ new_idx <= Len(keys) THEN keys[new_idx] ELSE ""

\* GetAdjacentKey that returns the key itself where it finds no neighbour.
GetAdjacentKeyNeverNone(char, offset) ==
    LET rows == {r \in 1..Len(KeyboardLayout) : Lower(char) \in Range(KeyboardLayout[r])}
    IN  IF rows = {} THEN Lower(char)
        ELSE LET keys == KeyboardLayout[CHOOSE r \in rows : TRUE]
                 new_idx == IndexOf(keys, Lower(char)) + offset
             IN  IF 1 <= new_idx /\ new_idx <= Len(keys) THEN keys[new_idx] ELSE Lower(char)

\* _get_adjacent_key(char) when random.choice([-1, 1]) gives offset; ""
\* stands for None.
GetAdjacentKey(char, offset) ==
    LET rows == {r \in 1..Len(KeyboardLayout) : Lower(char) \in Range(KeyboardLayout[r])}
    IN  IF rows = {} THEN ""
        ELSE LET keys == KeyboardLayout[CHOOSE r \in rows : TRUE]
                 new_idx == IndexOf(keys, Lower(char)) + offset
             IN  IF 1 <= new_idx /\ new_idx <= Len(keys) THEN keys[new_idx] ELSE ""

KeyEvent(key, role, idx) == Event("press", 0, 0, key, 0, role, idx)

\* Chance with <= for <.
ChanceInclusive(r, probability) == r <= probability

\* random.random() < probability, both in hundredths.
Chance(r, probability) == r < probability

\* One round of the loop of type_human, for character i of n, under the
\* draws r1 (make_error), offset (the adjacent key), r2 (the correction at
\* line 370), r3 (the correction at line 378) and r4 (the extra pause).
\* TypeCharSteps drawing the correction whether or not a wrong key was found.
TypeCharStepsCorrectsNothing(char, i, n, min_delay, max_delay, error_probability, error_correction_probability, r1, offset, r2, r3, r4) ==
    LET make_error == Chance(r1, error_probability)
        error_char == IF make_error THEN GetAdjacentKey(char, offset) ELSE ""
    IN  (IF make_error
         THEN (IF error_char # "" THEN << Prim(KeyEvent(error_char, "error", i)) >> ELSE << >>)
              \o (IF Chance(r2, error_correction_probability)
                  THEN << Sleep(100, 500, "correct", FALSE),
                          Prim(KeyEvent("backspace", "backspace", i)),
                          Sleep(100, 300, "correct", FALSE) >>
                  ELSE << >>)
         ELSE << >>)
        \o (IF ~make_error \/ error_char = ""
            THEN << Prim(KeyEvent(char, "char", i)) >>
            ELSE IF make_error /\ Chance(r3, error_correction_probability)
                 THEN << Prim(KeyEvent(char, "char", i)) >>
                 ELSE << >>)
        \o (IF i < n THEN << Sleep(min_delay, max_delay, "key_delay", FALSE) >> ELSE << >>)
        \o (IF Chance(r4, 5) THEN << Sleep(200, 800, "hesitation", FALSE) >> ELSE << >>)

TypeCharSteps(char, i, n, min_delay, max_delay, error_probability, error_correction_probability, r1, offset, r2, r3, r4) ==
    LET make_error == Chance(r1, error_probability)
        error_char == IF make_error THEN GetAdjacentKey(char, offset) ELSE ""
    IN  (IF make_error /\ error_char # ""
         THEN << Prim(KeyEvent(error_char, "error", i)) >>
              \o (IF Chance(r2, error_correction_probability)
                  THEN << Sleep(100, 500, "correct", FALSE),
                          Prim(KeyEvent("backspace", "backspace", i)),
                          Sleep(100, 300, "correct", FALSE) >>
                  ELSE << >>)
         ELSE << >>)
        \o (IF ~make_error \/ error_char = ""
            THEN << Prim(KeyEvent(char, "char", i)) >>
            ELSE IF make_error /\ Chance(r3, error_correction_probability)
                 THEN << Prim(KeyEvent(char, "char", i)) >>
                 ELSE << >>)
        \o (IF i < n THEN << Sleep(min_delay, max_delay, "key_delay", FALSE) >> ELSE << >>)
        \o (IF Chance(r4, 5) THEN << Sleep(200, 800, "hesitation", FALSE) >> ELSE << >>)

\* The round of type_human for character i: lo and hi hold i and len(text).
TypeChar(i, n) == Step("type_char", NoEvent, i, n, FALSE)

\* type_human(text, min_delay, max_delay, error_probability,
\* error_correction_probability): one round per character.
TypeText(limit, texts) ==
    /\ CanStart(limit)
    /\ \E text \in texts, p \in Probabilities, q \in Probabilities :
          Start(OpDescr("typeText", 50, 300, 0, 0, text, FALSE, 0, p, q),
                Seq1([i \in 1..Len(text) |-> TypeChar(i, Len(text))]))

\* A round of type_human starts: its draws are made and its calls queued.
ExecTypeChar ==
    /\ pending # << >>
    /\ Head(pending).ins = "type_char"
    /\ \E r1 \in RandomDraws, r2 \in RandomDraws, r3 \in RandomDraws, r4 \in RandomDraws,
          offset \in {-1, 1} :
          Continue(TypeCharSteps(op.keys[Head(pending).lo], Head(pending).lo,
                                 Head(pending).hi, op.x, op.y, op.p, op.q,
                                 r1, offset, r2, r3, r4)
                   \o Tail(pending))
    /\ UNCHANGED <<config, pattern, cancel_requested, last_path, simulator, executor, now, trace, op, nops>>

\* ----------------------------------------------------------------- idle

\* The micro-actions random.choice can start from the pointer at current,
\* each under every draw tried: _micro_mouse_movement, _look_around,
\* _scroll_randomly, _switch_tabs.
MicroActions(current) ==
    { << CallMove(current[1] + off[1], current[2] + off[2]) >> : off \in MicroOffsetDraws }
    \cup { << CallMove(t[1], t[2]), Sleep(300, 1000, "look", FALSE) >> : t \in LookDraws }
    \cup { ScrollSteps(FALSE, 0, 0, direction, clicks) :
              direction \in ScrollDirection, clicks \in 1..3 }
    \cup { HotkeySteps(<< "ctrl", "tab" >>) \o << Sleep(500, 1500, "tabs", FALSE) >> }

\* The while test of idle_behavior: lo holds start_time, hi the duration.
IdleLoop(start_time, duration) == Step("idle_loop", NoEvent, start_time, duration, FALSE)

\* idle_behavior(min_duration, max_duration)
Idle(limit, mode, durations) ==
    /\ CanStart(limit)
    /\ \E d \in durations :
          \E duration \in Draw(mode, d[1], d[2]) :
             Start(OpDescr("idle", 0, 0, 0, 0, << >>, FALSE, duration, d[1], d[2]),
                   << IdleLoop(now, duration) >>)

\* ExecIdleLoop going back to the while test right after the micro-action.
ExecIdleLoopNoGap ==
    /\ pending # << >>
    /\ Head(pending).ins = "idle_loop"
    /\ IF now - Head(pending).lo < Head(pending).hi
       THEN \E action \in MicroActions(pos) :
               Continue(action \o << Head(pending) >> \o Tail(pending))
       ELSE Continue(Tail(pending))
    /\ UNCHANGED <<config, pattern, cancel_requested, last_path, simulator, executor, now, trace, op, nops>>

\* ExecIdleLoop with <= for < in the while test.
ExecIdleLoopInclusive ==
    /\ pending # << >>
    /\ Head(pending).ins = "idle_loop"
    /\ IF now - Head(pending).lo <= Head(pending).hi
       THEN \E action \in MicroActions(pos) :
               Continue(action \o << Sleep(500, 2000, "idle_gap", FALSE), Head(pending) >>
                        \o Tail(pending))
       ELSE Continue(Tail(pending))
    /\ UNCHANGED <<config, pattern, cancel_requested, last_path, simulator, executor, now, trace, op, nops>>

\* while time.time() - start_time < duration: a micro-action, a sleep of
\* 0.5 to 2.0 s, and the test again.
ExecIdleLoop ==
    /\ pending # << >>
    /\ Head(pending).ins = "idle_loop"
    /\ IF now - Head(pending).lo < Head(pending).hi
       THEN \E action \in MicroActions(pos) :
               Continue(action \o << Sleep(500, 2000, "idle_gap", FALSE), Head(pending) >>
                        \o Tail(pending))
       ELSE Continue(Tail(pending))
    /\ UNCHANGED <<config, pattern, cancel_requested, last_path, simulator, executor, now, trace, op, nops>>

\* ------------------------------------------------------------ cancellation

\* The caller asks the operation in flight to stop.  No statement of the
\* simulator reads the request: every step leaves it alone and runs as it
\* would without it.
RaiseCancel ==
    /\ pending # << >>
    /\ ~cancel_requested
    /\ cancel_requested' = TRUE
    /\ UNCHANGED <<config, pattern, last_path, simulator, executor, now, pending, trace, result,
                   op, nops>>

RECURSIVE Sum(_)
Sum(seq) == IF seq = << >> THEN 0 ELSE Head(seq) + Sum(Tail(seq))

\* get_behavior_pattern, the speeds: distance over time of every two
\* consecutive history entries recorded at different times (pixels per
\* second, times being milliseconds).
Speeds(history) ==
    LET times == SelectSeq(Seq1([i \in 1..(Len(history) - 1) |-> i]),
                           LAMBDA i : history[i + 1][3] - history[i][3] > 0)
    IN  Seq1([k \in 1..Len(times) |->
            LET a == history[times[k]]
                b == history[times[k] + 1]
            IN  TruncDiv(ISqrt((b[1] - a[1]) * (b[1] - a[1]) + (b[2] - a[2]) * (b[2] - a[2]))
                         * 1000, b[3] - a[3])])

\* BehaviorPattern returning statistics from the first history entry on.
BehaviorPatternFromOne(history, counter, last) ==
    IF Len(history) < 1
    THEN EmptyPattern
    ELSE [total_actions |-> counter,
          mouse_history_length |-> Len(history),
          average_speed |-> IF Speeds(history) # << >>
                            THEN TruncDiv(Sum(Speeds(history)), Len(Speeds(history)))
                            ELSE 0,
          last_action_time |-> last]

\* get_behavior_pattern: {} under two history entries, the statistics
\* otherwise.
BehaviorPattern(history, counter, last) ==
    IF Len(history) < 2
    THEN EmptyPattern
    ELSE [total_actions |-> counter,
          mouse_history_length |-> Len(history),
          average_speed |-> IF Speeds(history) # << >>
                            THEN TruncDiv(Sum(Speeds(history)), Len(Speeds(history)))
                            ELSE 0,
          last_action_time |-> last]

\* A call of get_behavior_pattern().
GetBehaviorPattern(limit) ==
    /\ CanStart(limit)
    /\ op' = OpDescr("getBehaviorPattern", 0, 0, 0, 0, << >>, FALSE, 0, 0, 0)
    /\ nops' = nops + 1
    /\ trace' = << >>
    /\ pattern' = BehaviorPattern(mouse_history, action_counter, last_action_time)
    /\ Continue(<< >>)
    /\ UNCHANGED <<config, cancel_requested, last_path, simulator, executor, now>>

\* Moves the simulator has made before the run, and the time of one, in ms.
PriorMoves == {0, HistoryCapacity - 1, HistoryCapacity + 1}
MoveTime == 1000

\* mouse_history after n moves, to the two targets in turn, one every
\* MoveTime ms.
\* The entries of the last HistoryCapacity of them are kept.
HistoryAfter(n) ==
    LET kept == Min2(n, HistoryCapacity)
    IN  Seq1([i \in 1..kept |->
            LET k == n - kept + i
            IN  << IF k % 2 = 1 THEN 130 ELSE 10, IF k % 2 = 1 THEN 70 ELSE 20,
                   k * MoveTime >>])

\* The simulator after n earlier moves, n in PriorMoves: the pointer on the
\* target of the last one, the history and the counter as those moves left
\* them.
InitMoved ==
    \E n \in PriorMoves :
        /\ pos = IF n % 2 = 1 THEN << 130, 70 >> ELSE << 10, 20 >>
        /\ held = {}
        /\ mouse_history = HistoryAfter(n)
        /\ action_counter = n
        /\ last_action_time = IF n = 0 THEN 0 ELSE (n - 1) * MoveTime + 200
        /\ mouse_config = DefaultMouseConfig
        /\ human_delay = DefaultHumanDelay
        /\ last_path = NoPath
        /\ now = n * MoveTime
        /\ pending = << >>
        /\ trace = << >>
        /\ result = "none"
        /\ op = [name |-> "none", x |-> 0, y |-> 0, x2 |-> 0, y2 |-> 0, keys |-> << >>,
                 flag |-> FALSE, n |-> 0, p |-> 0, q |-> 0,
                 pos0 |-> pos, history0 |-> mouse_history, counter0 |-> n,
                 last0 |-> last_action_time, now0 |-> now]
        /\ nops = 0
        /\ cancel_requested = FALSE
        /\ pattern = EmptyPattern

\* ----------------------------------------------------------- specifications

\* Moves only, along straight paths, with every delay at the middle of its
\* range: long runs of moves, past the capacity of the history.
NextHistory ==
    \/ MoveTo(MaxHistoryOps)
    \/ ExecCallMove("mid", {FALSE})
    \/ ExecPrim
    \/ ExecFail
    \/ ExecSleep("mid")
    \/ ExecRecord

SpecHistory == Init /\ [][NextHistory]_vars

\* Every operation but typing, every path kind, every delay at the middle
\* of its range.
Next ==
    \/ MoveTo(MaxOps)
    \/ Click(MaxOps)
    \/ Scroll(MaxOps)
    \/ Drag(MaxOps, "mid")
    \/ PressKey(MaxOps, "mid")
    \/ Hotkey(MaxOps)
    \/ Idle(MaxOps, "mid", ShortIdleDurations)
    \/ TypeText(MaxOps, ShortTexts)
    \/ ExecCallMove("mid", BOOLEAN)
    \/ ExecPrim
    \/ ExecFail
    \/ ExecSleep("mid")
    \/ ExecRecord
    \/ ExecTypeChar
    \/ ExecIdleLoop

Spec == Init /\ [][Next]_vars

\* Moves only, along every path kind: short runs of moves.
NextMoves ==
    \/ MoveTo(MaxMoveOps)
    \/ ExecCallMove("mid", BOOLEAN)
    \/ ExecPrim
    \/ ExecFail
    \/ ExecSleep("mid")
    \/ ExecRecord

SpecMoves == Init /\ [][NextMoves]_vars

\* Moves and clicks, from a pointer on a target or near one.
NextPointer ==
    \/ MoveTo(MaxOps)
    \/ Click(MaxOps)
    \/ ExecCallMove("mid", BOOLEAN)
    \/ ExecPrim
    \/ ExecFail
    \/ ExecSleep("mid")
    \/ ExecRecord

SpecPointer == InitPointer /\ [][NextPointer]_vars

\* Moves along straight paths and clicks, under every delay configuration,
\* with the normal draw of every _human_delay inside and outside its window.
NextDelay ==
    \/ MoveTo(MaxOps)
    \/ Click(MaxOps)
    \/ ExecCallMove("tails", {FALSE})
    \/ ExecPrim
    \/ ExecFail
    \/ ExecSleep("tails")
    \/ ExecRecord

SpecDelay == InitDelay /\ [][NextDelay]_vars

\* One move along every path kind, under every mouse configuration, from a
\* pointer on a target or near one.
NextPaths ==
    \/ MoveTo(MaxOps)
    \/ ExecCallMove("mid", BOOLEAN)
    \/ ExecPrim
    \/ ExecFail
    \/ ExecSleep("mid")
    \/ ExecRecord

SpecPaths == InitPaths /\ [][NextPaths]_vars

\* The steps of an idle_behavior in flight when every pyautogui call
\* returns; its moves take the straight path.
IdleSteps ==
    \/ ExecIdleLoop
    \/ ExecCallMove("mid", {FALSE})
    \/ ExecPrim
    \/ ExecSleep("mid")
    \/ ExecRecord

\* idle_behavior only, every pyautogui call returning.
NextIdle ==
    \/ Idle(MaxOps, "mid", IdleDurations)
    \/ IdleSteps

\* The same, the interpreter never stopping in the middle of the call:
\* a sleep ends, a call returns, the next statement runs.
SpecIdle == Init /\ [][NextIdle]_vars /\ WF_vars(IdleSteps)

\* A move or an idle_behavior that the caller may ask to stop at any point.
NextCancel ==
    \/ MoveTo(MaxOps)
    \/ Idle(MaxOps, "mid", ShortIdleDurations)
    \/ IdleSteps
    \/ RaiseCancel

SpecCancel == Init /\ [][NextCancel]_vars

\* Every operation, on straight paths, from a simulator that has moved
\* before.
NextCounters ==
    \/ MoveTo(MaxOps)
    \/ Click(MaxOps)
    \/ Scroll(MaxOps)
    \/ Drag(MaxOps, "mid")
    \/ PressKey(MaxOps, "mid")
    \/ Hotkey(MaxOps)
    \/ Idle(MaxOps, "mid", ShortIdleDurations)
    \/ TypeText(MaxOps, ShortTexts)
    \/ GetBehaviorPattern(MaxOps)
    \/ ExecCallMove("mid", {FALSE})
    \/ ExecPrim
    \/ ExecFail
    \/ ExecSleep("mid")
    \/ ExecRecord
    \/ ExecTypeChar
    \/ ExecIdleLoop

SpecCounters == InitMoved /\ [][NextCounters]_vars

\* Moves along straight paths and readings of the behaviour pattern.
NextPattern ==
    \/ MoveTo(MaxMoveOps)
    \/ GetBehaviorPattern(MaxMoveOps)
    \/ ExecCallMove("mid", {FALSE})
    \/ ExecPrim
    \/ ExecFail
    \/ ExecSleep("mid")
    \/ ExecRecord

SpecPattern == Init /\ [][NextPattern]_vars

\* Moves along straight paths under the configurations the validator lets
\* through.
NextConfig ==
    \/ MoveTo(MaxOps)
    \/ ExecCallMove("ends", {FALSE})
    \/ ExecPrim
    \/ ExecFail
    \/ ExecSleep("mid")
    \/ ExecRecord

SpecConfig == InitValidated /\ [][NextConfig]_vars

\* Typing only.
NextType ==
    \/ TypeText(MaxOps, Texts)
    \/ ExecPrim
    \/ ExecFail
    \/ ExecSleep("mid")
    \/ ExecTypeChar

SpecType == Init /\ [][NextType]_vars

\* ------------------------------------------------------------------ claims

\* A step that changes the history adds the entry of the move that ends, at
\* the newest end; the entries before it are the old ones in their order,
\* less the oldest one once the history was full.
C1_Insertion ==
    mouse_history' # mouse_history =>
        /\ Last(mouse_history') = << op.x, op.y, now >>
        /\ Front(mouse_history') =
              IF Len(mouse_history) = HistoryCapacity
              THEN Tail(mouse_history) ELSE mouse_history
        /\ Len(mouse_history) = HistoryCapacity =>
              Head(mouse_history) \notin Range(mouse_history')

\* C1: the action history never holds more than 100 entries, and eviction
\* is FIFO: an insertion into the full history drops the oldest entry, keeps
\* the others in insertion order and puts the new entry last.
C1_HistoryBoundedFifo ==
    /\ [](Len(mouse_history) <= HistoryCapacity)
    /\ [][C1_Insertion]_vars

\* C1 witness: the 101st insertion has happened: the history is full, its
\* newest entry is the move just recorded and its oldest is the second move.
C1_Witness ==
    /\ action_counter = HistoryCapacity + 1
    /\ Len(mouse_history) = HistoryCapacity
    /\ Last(mouse_history)[3] = now
    /\ Head(mouse_history)[3] > 0
    /\ \A i \in 1..(HistoryCapacity - 1) : mouse_history[i][3] < mouse_history[i + 1][3]


\* The keys type_human has pressed for character i, in order, as
\* << role, key >> pairs.
KeysOf(i) ==
    LET typed == SelectSeq(trace, LAMBDA e : e.kind = "press" /\ e.idx = i /\ e.ok)
    IN  [j \in 1..Len(typed) |-> << typed[j].role, typed[j].key >>]

\* All the keys pressed so far, in order.
KeysPressed ==
    LET typed == SelectSeq(trace, LAMBDA e : e.kind = "press" /\ e.ok)
    IN  [j \in 1..Len(typed) |-> typed[j].key]

\* The row neighbours of a character in the keyboard layout: the keys one
\* place to its left or right in its row.
Neighbours(char) ==
    UNION { { KeyboardLayout[r][j] :
                j \in { j \in 1..Len(KeyboardLayout[r]) :
                          \E c \in {j - 1, j + 1} \cap (1..Len(KeyboardLayout[r])) :
                             KeyboardLayout[r][c] = Lower(char) } } :
            r \in 1..Len(KeyboardLayout) }

IsPrefix(s, t) == Len(s) <= Len(t) /\ s = SubSeq(t, 1, Len(s))

TypeDone == op.name = "typeText" /\ result = "ok"

\* C2: the keys typed for a character are [char], [adjacent] or
\* [adjacent, backspace, char]: a backspace is always followed by the
\* correct character, and an uncorrected wrong key never is.
C2_ThreeSequences ==
    TypeDone =>
        \A i \in 1..Len(op.keys) :
            \/ KeysOf(i) = << << "char", op.keys[i] >> >>
            \/ \E a \in Neighbours(op.keys[i]) :
                  \/ KeysOf(i) = << << "error", a >> >>
                  \/ KeysOf(i) = << << "error", a >>, << "backspace", "backspace" >>,
                                    << "char", op.keys[i] >> >>

\* C3: with both probabilities 1, every character that has a row neighbour
\* is typed as neighbour, backspace, character.
C3_AlwaysCorrected ==
    (TypeDone /\ op.p = 100 /\ op.q = 100) =>
        \A i \in 1..Len(op.keys) :
            Neighbours(op.keys[i]) # {} =>
                \E a \in Neighbours(op.keys[i]) :
                    KeysOf(i) = << << "error", a >>, << "backspace", "backspace" >>,
                                   << "char", op.keys[i] >> >>

\* C4: with error probability 0 the keys pressed are the characters of the
\* text, in order: a prefix of it while typing, all of it at the end, each
\* pressed as the correct key of its own character.
C4_NoErrorTypesText ==
    (op.name = "typeText" /\ op.p = 0) =>
        /\ IsPrefix(KeysPressed, op.keys)
        /\ \A j \in 1..Len(trace) :
              trace[j].kind = "press" => trace[j].role = "char" /\ trace[j].key # "backspace"
        /\ result = "ok" =>
              /\ KeysPressed = op.keys
              /\ \A i \in 1..Len(op.keys) : KeysOf(i) = << << "char", op.keys[i] >> >>

\* C4 witness: a text of three characters was typed with error probability 0.
C4_Witness ==
    /\ TypeDone /\ op.p = 0 /\ op.q = 50
    /\ Len(op.keys) = 3
    /\ KeysPressed = op.keys

\* C5: without the wrong keys and the backspaces the keys typed are the
\* text: a character is typed as a correct key once, or not at all when
\* its wrong key was left uncorrected (no backspace).
C5_TextPreserved ==
    TypeDone =>
        \A i \in 1..Len(op.keys) :
            LET chars == SelectSeq(KeysOf(i), LAMBDA k : k[1] = "char")
                wrong == \E j \in 1..Len(KeysOf(i)) : KeysOf(i)[j][1] = "error"
                erased == \E j \in 1..Len(KeysOf(i)) : KeysOf(i)[j][1] = "backspace"
            IN  chars = IF wrong /\ ~erased THEN << >> ELSE << << "char", op.keys[i] >> >>

\* C6: when an error is to be injected (error probability 1) and no
\* adjacent key is found, the character is typed once as itself: a
\* character in no row gets no wrong key and no backspace, a character for
\* which no wrong key was pressed is pressed as itself, and only a failing
\* executor call makes the operation fail.
C6_NoAdjacentKeySkipsError ==
    (op.name = "typeText" /\ op.p = 100) =>
        /\ \A i \in 1..Len(op.keys) :
              Neighbours(op.keys[i]) = {} => IsPrefix(KeysOf(i), << << "char", op.keys[i] >> >>)
        /\ result = "ok" =>
              \A i \in 1..Len(op.keys) :
                  (KeysOf(i) = << >> \/ KeysOf(i)[1][1] # "error") =>
                      KeysOf(i) = << << "char", op.keys[i] >> >>
        /\ result = "error" => ~Last(trace).ok

\* C6 witness: with error probability 1, "q" (at the start of its row, the
\* draw went left) and " " (in no row) were each typed once as themselves.
C6_Witness ==
    /\ TypeDone /\ op.p = 100
    /\ op.keys = << "q", " " >>
    /\ KeysOf(1) = << << "char", "q" >> >>
    /\ KeysOf(2) = << << "char", " " >> >>


\* The pyautogui calls of the current operation, in order, without the sleeps.
Calls == SelectSeq(trace, LAMBDA e : e.kind # "sleep")

\* The places in calls of the calls of a kind, and of the moves of a role.
Places(calls, kind) == {i \in 1..Len(calls) : calls[i].kind = kind}
MovePlaces(calls, role) ==
    {i \in 1..Len(calls) : calls[i].kind = "moveTo" /\ calls[i].role = role}

\* C7: drag issues one mouseDown and one mouseUp; the mouseDown comes after
\* the move to the start and before every move of the drag path, the
\* mouseUp after the last of them, which is the move to (endX, endY).
C7_DragOrder ==
    op.name = "drag" =>
        LET calls == Calls
            downs == Places(calls, "mouseDown")
            ups == Places(calls, "mouseUp")
            to_start == MovePlaces(calls, "path")
            dragged == MovePlaces(calls, "drag")
        IN  /\ Cardinality(downs) <= 1
            /\ Cardinality(ups) <= 1
            /\ \A i \in to_start : \A d \in downs : i < d
            /\ \A i \in dragged : (\E d \in downs : d < i) /\ (\A u \in ups : i < u)
            /\ result = "ok" =>
                  /\ Cardinality(downs) = 1
                  /\ Cardinality(ups) = 1
                  /\ ups = {Len(calls)}
                  /\ Len(calls) - 1 \in dragged
                  /\ << calls[Len(calls) - 1].x, calls[Len(calls) - 1].y >> = << op.x2, op.y2 >>
                  /\ held = {}

\* C7 witness: a drag between two different points, whose start was not
\* where the pointer was, has returned.
C7_Witness ==
    /\ op.name = "drag" /\ result = "ok"
    /\ << op.x, op.y >> # << op.x2, op.y2 >>
    /\ op.pos0 # << op.x, op.y >>
    /\ LET calls == Calls
       IN  /\ MovePlaces(calls, "path") # {}
           /\ Cardinality(MovePlaces(calls, "drag")) = NumCurvePoints
    /\ pos = << op.x2, op.y2 >>

\* What hotkey(k1, ..., kn) is to issue: keyDown k1 .. k(n-1), press kn,
\* keyUp k(n-1) .. k1.
HotkeyCalls(keys) ==
    LET n == Len(keys)
    IN  [i \in 1..(2 * n - 1) |->
            IF i < n THEN << "keyDown", keys[i] >>
            ELSE IF i = n THEN << "press", keys[n] >>
            ELSE << "keyUp", keys[2 * n - i] >>]

\* C8: hotkey issues the keyDowns in order, the press, the keyUps in
\* reverse order, and leaves no key held when it returns.
C8_HotkeyOrder ==
    op.name = "hotkey" =>
        LET calls == Calls
        IN  /\ IsPrefix([i \in 1..Len(calls) |-> << calls[i].kind, calls[i].key >>],
                        HotkeyCalls(op.keys))
            /\ result = "ok" =>
                  /\ Len(calls) = 2 * Len(op.keys) - 1
                  /\ held = {}

\* C8 witness: a hotkey of two modifiers and a key has returned.
C8_Witness ==
    /\ op.name = "hotkey" /\ result = "ok"
    /\ Len(op.keys) = 3
    /\ LET calls == Calls
       IN  /\ calls[1].kind = "keyDown" /\ calls[5].kind = "keyUp"
           /\ calls[1].key = calls[5].key

\* C9: a pyautogui call that raises ends the operation in flight with the
\* failure: the failed call is the last call of the operation (none follows
\* it, it is not issued again), nothing of the operation is left to run,
\* and the caller sees the error.
C9_FailurePropagates ==
    /\ \A i \in 1..Len(trace) :
          ~trace[i].ok => (i = Len(trace) /\ result = "error" /\ pending = << >>)
    /\ result = "error" => (trace # << >> /\ ~Last(trace).ok)

\* C9 witness: a move inside a micro-action of idle has raised.
C9_Witness ==
    /\ op.name = "idle" /\ result = "error"
    /\ Last(trace).kind = "moveTo"
    /\ Len(trace) > 3

\* C10: a moveTo that is not skipped appends one history entry, (x, y), when
\* it returns, and none before: not one per path point.
C10_OneEntryPerMove ==
    (op.name = "moveTo" /\ ~NearTarget(op.pos0, << op.x, op.y >>)) =>
        /\ result = "running" =>
              mouse_history = op.history0 /\ action_counter = op.counter0
        /\ result = "ok" =>
              /\ mouse_history # << >>
              /\ Front(mouse_history) = op.history0
              /\ Last(mouse_history)[1] = op.x /\ Last(mouse_history)[2] = op.y
              /\ Last(mouse_history)[3] = now
              /\ action_counter = op.counter0 + 1
              /\ Places(trace, "moveTo") # {}
        /\ result = "error" => ~Last(trace).ok

\* C10 witness: a second move, along a curved path of 50 points, has
\* returned and added the second entry.
C10_Witness ==
    /\ op.name = "moveTo" /\ result = "ok"
    /\ Len(op.history0) = 1
    /\ Len(mouse_history) = 2
    /\ Cardinality(Places(trace, "moveTo")) = NumCurvePoints


\* C11: a moveTo(x, y) called with the pointer less than 2 pixels from
\* (x, y) in both axes issues no pyautogui call, sleeps no delay, and leaves
\* the history, the action counter, the last-action time, the clock and the
\* pointer as they were.
C11_SkipNearTarget ==
    (op.name = "moveTo" /\ Abs(op.pos0[1] - op.x) < 2 /\ Abs(op.pos0[2] - op.y) < 2) =>
        /\ trace = << >>
        /\ now = op.now0
        /\ mouse_history = op.history0
        /\ action_counter = op.counter0
        /\ last_action_time = op.last0
        /\ pos = op.pos0
        /\ result \in {"running", "ok"}
        /\ result = "running" => pending = << CallMove(op.x, op.y) >>

\* C11 witness: a moveTo to a target one pixel away in both axes has
\* returned without a call.
C11_Witness ==
    /\ op.name = "moveTo" /\ result = "ok"
    /\ op.pos0 = << op.x + 1, op.y - 1 >>
    /\ trace = << >>
    /\ pos = op.pos0


C13_OffsetHonoured ==
    (op.name = "click" /\ op.p = 1 /\ pending # << >> /\ Head(pending).ins = "call_move") =>
        LET target == << Head(pending).ev.x, Head(pending).ev.y >>
        IN  IF op.q = 1
            THEN target = << op.x + op.x2, op.y + op.y2 >>
            ELSE Abs(target[1] - op.x) <= 3 /\ Abs(target[2] - op.y) <= 3

\* C14: a click that returns has ended with the reaction delay, the click
\* of the button (twice with one sleep in between for a double click), and
\* the think delay, and has issued no other click.
C14_ClickCount ==
    (op.name = "click" /\ result = "ok") =>
        LET expected == IF op.flag
                        THEN << << "sleep", "reaction" >>, << "click", "click" >>,
                                << "sleep", "gap" >>, << "click", "click" >>,
                                << "sleep", "thinking" >> >>
                        ELSE << << "sleep", "reaction" >>, << "click", "click" >>,
                                << "sleep", "thinking" >> >>
            n == Len(trace)
            k == Len(expected)
        IN  /\ n >= k
            /\ \A i \in 1..k : << trace[n - k + i].kind, trace[n - k + i].role >> = expected[i]
            /\ \A i \in Places(trace, "click") : i > n - k /\ trace[i].key = op.keys[1]
            /\ Cardinality(Places(trace, "click")) = IF op.flag THEN 2 ELSE 1

\* C14 witness: a double click of the right button after a move has returned.
C14_Witness ==
    /\ op.name = "click" /\ result = "ok" /\ op.flag /\ op.p = 1
    /\ op.keys = << "right" >>
    /\ Places(trace, "moveTo") # {}
    /\ Cardinality(Places(trace, "click")) = 2
    /\ trace[Len(trace) - 2].kind = "sleep"


\* A sleep of _human_delay(min, max) with min < max takes a time in
\* [min, max].
C15_Sample ==
    (/\ pending # << >>
     /\ Head(pending).ins = "sleep"
     /\ Head(pending).mark
     /\ Head(pending).lo < Head(pending).hi
     /\ trace' # trace) =>
        /\ Last(trace').kind = "sleep"
        /\ Last(trace').n >= Head(pending).lo
        /\ Last(trace').n <= Head(pending).hi
        /\ now' = now + Last(trace').n

\* C15: for min < max the delay _get_random_delay(min, max) returns, and
\* _human_delay sleeps, lies in [min, max] whatever the normal draw.
C15_DelayClamped == [][C15_Sample]_vars

\* C15 witness: a click has slept its reaction delay at the maximum of
\* (0.05, 0.2) and its think delay at the minimum of (0.1, 0.3): draws above
\* and below the window, clamped.
C15_Witness ==
    /\ op.name = "click" /\ result = "ok" /\ op.p = 0
    /\ trace[1].role = "reaction" /\ trace[1].n = 200
    /\ Last(trace).role = "thinking" /\ Last(trace).n = 100


\* The path last synthesized is that of the moveTo in flight or last run:
\* it leads from where the pointer was at the call to the requested point.
Synthesized ==
    /\ op.name = "moveTo"
    /\ last_path # NoPath
    /\ last_path.start = op.pos0
    /\ last_path.end = << op.x, op.y >>

\* C16: a straight (eased-linear) path has max(5, distance / 10) points,
\* distance the Euclidean distance from start to end and distance / 10 its
\* integer part.
C16_LinearPointCount ==
    (Synthesized /\ ~last_path.use_curve) =>
        LET dx == op.x - op.pos0[1]
            dy == op.y - op.pos0[2]
        IN  Len(last_path.points) = Max2(5, ISqrt(dx * dx + dy * dy) \div 10)

\* C17: a synthesized path is not empty; a curved one comes from 2, 3 or 4
\* control points and has 50 points, jitter included; the move issues one
\* moveTo per point.
C17_PathLength ==
    Synthesized =>
        /\ Len(last_path.points) > 0
        /\ last_path.use_curve =>
              /\ last_path.control_points \in 2..4
              /\ Len(last_path.points) = 50
        /\ result = "ok" => Cardinality(Places(trace, "moveTo")) = Len(last_path.points)

\* C17 witness: a move along a jittered curve of 4 control points has
\* returned after 50 moveTo calls.
C17_Witness ==
    /\ Synthesized /\ result = "ok"
    /\ last_path.use_curve /\ last_path.control_points = 4
    /\ mouse_config.jitter_factor = 30
    /\ Last(last_path.points) # << op.x, op.y >>
    /\ Cardinality(Places(trace, "moveTo")) = 50

\* C18: the last point of a curved path is within jitter_factor * 10 pixels
\* of the requested end in each axis (jitter_factor in hundredths), the last
\* point of a straight path is the requested end; the pointer ends there.
C18_LastPoint ==
    Synthesized =>
        LET last == Last(last_path.points)
        IN  /\ IF last_path.use_curve
               THEN /\ 100 * Abs(last[1] - op.x) <= mouse_config.jitter_factor * 10
                    /\ 100 * Abs(last[2] - op.y) <= mouse_config.jitter_factor * 10
               ELSE last = << op.x, op.y >>
            /\ result = "ok" => pos = last

\* C18 witness: a curve has ended 3 pixels from the requested end under a
\* jitter factor of 0.3, and a straight path on it.
C18_Witness ==
    /\ Synthesized /\ result = "ok"
    /\ \/ /\ last_path.use_curve
          /\ mouse_config.jitter_factor = 30
          /\ Abs(pos[1] - op.x) = 3
       \/ /\ ~last_path.use_curve
          /\ pos = << op.x, op.y >>
          /\ op.pos0 # pos


\* The while test of idle_behavior decides by the elapsed time alone: the
\* call returns at the first test at which the elapsed time has reached the
\* duration, and goes on to a micro-action at a test before that.
C19_Recheck ==
    (/\ pending # << >>
     /\ Head(pending).ins = "idle_loop"
     /\ pending' # pending) =>
        IF now - op.now0 >= op.n
        THEN result' = "ok" /\ trace' = trace
        ELSE result' = "running" /\ Len(pending') > Len(pending)

\* C19: idle(minDuration, maxDuration) returns, for minDuration <=
\* maxDuration, when the clock advances and every pyautogui call returns;
\* it returns at the first re-check at which elapsed >= duration.
C19_IdleReturns ==
    /\ [][C19_Recheck]_vars
    /\ [](op.name = "idle" /\ result = "running" => <>(op.name = "idle" /\ result = "ok"))

\* C19 witness: an idle of 2 seconds has returned after two rounds of the
\* loop (two sleeps between micro-actions).
C19_Witness ==
    /\ op.name = "idle" /\ result = "ok"
    /\ op.n = 2000
    /\ now - op.now0 >= op.n
    /\ Cardinality({i \in 1..Len(trace) : trace[i].role = "idle_gap"}) = 2

\* C20: idle(1, 1) returns with between 1.0 and 1.5 seconds elapsed.
C20_IdleElapsed ==
    (op.name = "idle" /\ result = "ok" /\ op.p = 1000 /\ op.q = 1000) =>
        /\ now - op.now0 >= 1000
        /\ now - op.now0 <= 1500


\* Once the stop is requested, the move or idle in flight issues no further
\* pyautogui call and starts no further micro-action.
C21_Step ==
    (cancel_requested /\ op.name \in {"moveTo", "idle"}) =>
        /\ Len(trace') > Len(trace) => Last(trace').kind = "sleep"
        /\ Len(pending') <= Len(pending)

\* C21: the idle loop and the path traversal check a cancellation signal
\* between steps: once it is raised no further micro-action or path step
\* starts, and the operation ends normally.
C21_CancelStops == [][C21_Step]_vars


\* A delay profile is valid when its durations are positive and min < max
\* in each of its windows; a motion profile when speed_min < speed_max.
ValidDelayProfile(delay) ==
    /\ 0 < delay.min_delay /\ delay.min_delay < delay.max_delay
    /\ 0 < delay.think_time_min /\ delay.think_time_min < delay.think_time_max
    /\ 0 < delay.reaction_time_min /\ delay.reaction_time_min < delay.reaction_time_max
ValidMotionProfile(mouse) == 0 < mouse.speed_min /\ mouse.speed_min < mouse.speed_max

\* C22: a profile with min >= max in a window, or a non-positive duration,
\* is rejected at construction: no operation runs under one.
C22_InvalidProfileRejected ==
    result # "none" => ValidDelayProfile(human_delay) /\ ValidMotionProfile(mouse_config)

\* C23: scroll(direction, clicks) issues exactly clicks scroll events, each
\* of magnitude 1, 2 or 3, negative for down and positive for up; when a
\* position is given, the move to it is over (skipped, or walked and
\* recorded) before the first scroll event.
C23_ScrollEvents ==
    op.name = "scroll" =>
        LET calls == Calls
            scrolls == Places(calls, "scroll")
            moves == Places(calls, "moveTo")
        IN  /\ \A i \in scrolls :
                  /\ Abs(calls[i].n) \in 1..3
                  /\ op.keys[1] = "down" => calls[i].n < 0
                  /\ op.keys[1] = "up" => calls[i].n > 0
            /\ Cardinality(scrolls) <= op.n
            /\ result = "ok" => Cardinality(scrolls) = op.n
            /\ \A i \in moves : \A j \in scrolls : i < j
            /\ (scrolls # {} /\ op.p = 1) =>
                  \/ NearTarget(op.pos0, << op.x, op.y >>) /\ moves = {}
                  \/ action_counter = op.counter0 + 1 /\ moves # {}
            /\ op.p = 0 => moves = {}

\* C23 witness: a scroll down of two clicks at a position the pointer had to
\* be moved to has returned.
C23_Witness ==
    /\ op.name = "scroll" /\ result = "ok" /\ op.n = 2 /\ op.p = 1
    /\ op.keys = << "down" >>
    /\ Places(trace, "moveTo") # {}
    /\ Cardinality(Places(trace, "scroll")) = 2

\* C24: get_behavior_pattern returns the empty pattern when the history
\* holds fewer than 2 entries; otherwise its mouse_history_length is the
\* number of history entries and its total_actions the action counter.
C24_BehaviorPattern ==
    (op.name = "getBehaviorPattern" /\ result = "ok") =>
        IF Len(mouse_history) < 2
        THEN DOMAIN pattern = {}
        ELSE /\ DOMAIN pattern # {}
             /\ pattern.mouse_history_length = Len(mouse_history)
             /\ pattern.total_actions = action_counter

\* C24 witness: the pattern has been read with two entries in the history.
C24_Witness ==
    /\ op.name = "getBehaviorPattern" /\ result = "ok"
    /\ Len(mouse_history) = 2
    /\ DOMAIN pattern # {}
    /\ pattern.total_actions = 2

\* C25: after a completed operation that moved the pointer, the newest
\* history entry holds the position the executor last moved the pointer to.
C25_HistoryTracksPointer ==
    (/\ result = "ok"
     /\ op.name \in {"moveTo", "click", "scroll", "drag", "idle"}
     /\ Places(trace, "moveTo") # {}) =>
        /\ mouse_history # << >>
        /\ << Last(mouse_history)[1], Last(mouse_history)[2] >> = pos

\* Which of the four micro-actions a list of steps is the code of.
MicroKind(action) ==
    IF action = << >> THEN "other"
    ELSE IF action[1].ins = "call_move"
    THEN IF Len(action) = 1
         THEN IF Abs(action[1].ev.x - pos[1]) <= 20 /\ Abs(action[1].ev.y - pos[2]) <= 20
              THEN "micro_move" ELSE "other"
         ELSE IF Len(action) = 2 /\ action[2].ins = "sleep" /\ action[2].ev.role = "look"
              THEN "look_around" ELSE "other"
    ELSE IF \A i \in 1..Len(action) :
               \/ action[i].ins = "prim" /\ action[i].ev.kind = "scroll"
               \/ action[i].ins = "sleep" /\ action[i].ev.role = "scroll_gap"
    THEN "scroll_random"
    ELSE IF /\ action[1].ins = "prim" /\ action[1].ev.kind = "keyDown"
            /\ action[1].ev.key = "ctrl"
            /\ \E i \in 1..Len(action) : action[i].ins = "prim" /\ action[i].ev.kind = "press"
                                         /\ action[i].ev.key = "tab"
            /\ Last(action).ins = "sleep" /\ Last(action).ev.role = "tabs"
    THEN "switch_tabs"
    ELSE "other"

\* One evaluation of the while test of idle_behavior.
C26_Step ==
    (/\ pending # << >>
     /\ Head(pending).ins = "idle_loop"
     /\ pending' # pending) =>
        /\ Head(pending).lo = op.now0 /\ Head(pending).hi = op.n
        /\ op.p <= op.n /\ op.n <= op.q
        /\ IF now - op.now0 < op.n
           THEN LET k == Len(pending') - Len(pending)
                IN  /\ k >= 2
                    /\ MicroKind(SubSeq(pending', 1, k - 1)) # "other"
                    /\ pending'[k].ins = "sleep" /\ pending'[k].ev.role = "idle_gap"
                    /\ pending'[k].lo = 500 /\ pending'[k].hi = 2000
                    /\ pending'[k + 1] = Head(pending)
           ELSE Len(pending') < Len(pending)

\* C26: within one idle call the target duration is chosen once, inside
\* [minDuration, maxDuration]; a micro-action starts only while elapsed <
\* target, is one of the four (micro move, look-around, scroll-random,
\* switch-tabs) and is followed by the inter-action sleep and then the test
\* again.
C26_IdleRounds == [][C26_Step]_vars

\* C26 witness: an idle of 2 s has returned after a round that scrolled
\* and a round that switched tabs.
C26_Witness ==
    /\ op.name = "idle" /\ result = "ok" /\ op.p = 2000 /\ op.q = 2000
    /\ \E i \in 1..Len(trace) : trace[i].kind = "scroll"
    /\ \E i \in 1..Len(trace) : trace[i].role = "tabs"
    /\ trace[Len(trace)].role = "idle_gap"

\* The row of the keyboard layout a character lies in, 0 for none.
RowOf(char) ==
    IF \E r \in 1..Len(KeyboardLayout) : Lower(char) \in Range(KeyboardLayout[r])
    THEN CHOOSE r \in 1..Len(KeyboardLayout) : Lower(char) \in Range(KeyboardLayout[r])
    ELSE 0

\* C27: a key the adjacent-key lookup returns for a character lies in the
\* row of the lower-cased character, one place to its left or right, and is
\* not the character; for a character in no row the lookup returns no key
\* (no wrong key is pressed for it).
C27_AdjacentKey ==
    op.name = "typeText" =>
        \A j \in 1..Len(trace) :
            trace[j].role = "error" =>
                LET char == op.keys[trace[j].idx]
                    row == RowOf(char)
                IN  /\ row # 0
                    /\ trace[j].key \in Range(KeyboardLayout[row])
                    /\ Abs(IndexOf(KeyboardLayout[row], trace[j].key)
                           - IndexOf(KeyboardLayout[row], Lower(char))) = 1
                    /\ trace[j].key # Lower(char)
                    /\ trace[j].key # char

\* C27 witness: "H", "/", "s" was typed with error probability 1: "g" or "j"
\* was pressed for "H", and "/", at the end of its row with the draw going
\* right, was typed as itself.
C27_Witness ==
    /\ TypeDone /\ op.p = 100
    /\ op.keys = << "H", "/", "s" >>
    /\ KeysOf(1) # << >> /\ KeysOf(1)[1] \in {<< "error", "g" >>, << "error", "j" >>}
    /\ KeysOf(2) = << << "char", "/" >> >>

\* C30: in the keys typeText presses, every backspace comes right after a
\* wrong key injected for the same character of the text: no backspace
\* follows a correct character or another backspace.
C30_BackspaceAfterError ==
    op.name = "typeText" =>
        LET calls == Calls
        IN  \A j \in 1..Len(calls) :
                calls[j].key = "backspace" =>
                    /\ j > 1
                    /\ calls[j - 1].role = "error"
                    /\ calls[j - 1].idx = calls[j].idx
                    /\ calls[j - 1].key # "backspace"
                    /\ calls[j - 1].ok

\* C30 witness: "H", "/", "s" was typed with both probabilities 1 and the
\* wrong key pressed for "s" was erased.
C30_Witness ==
    /\ TypeDone /\ op.p = 100 /\ op.q = 100
    /\ op.keys = << "H", "/", "s" >>
    /\ Len(KeysOf(3)) >= 2
    /\ KeysOf(3)[1][1] = "error"
    /\ KeysOf(3)[2] = << "backspace", "backspace" >>

\* C28: the first point of a synthesized path is the requested start on a
\* straight path and within jitter_factor * 10 pixels of it in each axis
\* on a curved one (jitter_factor in hundredths); the pointer is moved
\* there first.
C28_FirstPoint ==
    Synthesized =>
        LET first == Head(last_path.points)
            moves == SelectSeq(trace, LAMBDA e : e.kind = "moveTo")
        IN  /\ IF last_path.use_curve
               THEN /\ 100 * Abs(first[1] - op.pos0[1]) <= mouse_config.jitter_factor * 10
                    /\ 100 * Abs(first[2] - op.pos0[2]) <= mouse_config.jitter_factor * 10
               ELSE first = op.pos0
            /\ moves # << >> => << moves[1].x, moves[1].y >> = first

\* C28 witness: a move has returned whose curve began 3 pixels from the
\* start under a jitter factor of 0.3.
C28_Witness ==
    /\ Synthesized /\ result = "ok"
    /\ last_path.use_curve
    /\ mouse_config.jitter_factor = 30
    /\ Abs(Head(last_path.points)[1] - op.pos0[1]) = 3
    /\ trace[2].kind = "moveTo" /\ trace[2].x = Head(last_path.points)[1]

\* The traversals the current operation has walked to their last point:
\* the moves along a path that no pacing sleep follows or is about to.
TraversalEnds ==
    {i \in 1..Len(trace) :
        /\ trace[i].kind = "moveTo" /\ trace[i].role = "path" /\ trace[i].ok
        /\ i < Len(trace) => trace[i + 1].role # "pace"
        /\ i = Len(trace) => pending = << >> \/ Head(pending).ev.role # "pace"}

\* A step that changes the history or the counter adds one to both (the
\* history staying at its capacity once full), and is the end of a move
\* whose path has just been walked.
C29_Step ==
    (action_counter' # action_counter \/ mouse_history' # mouse_history) =>
        /\ action_counter' = action_counter + 1
        /\ Len(mouse_history') = Min2(Len(mouse_history) + 1, HistoryCapacity)
        /\ op.name \in {"moveTo", "click", "scroll", "drag", "idle"}
        /\ trace # << >>
        /\ Last(trace).kind = "moveTo" /\ Last(trace).role = "path" /\ Last(trace).ok

\* C29: the history holds min(action counter, 100) entries; the counter and
\* the history grow together, by one per move that was not skipped, called
\* directly or from click, scroll, drag or idle, and nothing else changes
\* either.
C29_CounterAndHistory ==
    /\ [](Len(mouse_history) = Min2(action_counter, HistoryCapacity))
    /\ [][C29_Step]_vars
    /\ [](LET walked == Cardinality(TraversalEnds)
              done == action_counter - op.counter0
          IN  /\ done \in {walked - 1, walked}
              /\ result = "ok" => done = walked)

\* C29 witness: a drag whose move to the start was not skipped has
\* returned, the counter going from 101 to 102 with the history full.
C29_Witness ==
    /\ op.name = "drag" /\ result = "ok"
    /\ op.counter0 = HistoryCapacity + 1
    /\ action_counter = HistoryCapacity + 2
    /\ Len(mouse_history) = HistoryCapacity
    /\ Head(mouse_history) # Head(op.history0)

====
